---- MODULE Spec2Model ----
(***************************************************************************)
(* The benchmark kernels of code/chapterNN/bench/cases and the lit         *)
(* configuration of code/chapter06/test, as state machines.                *)
(*                                                                         *)
(* Every kernel is a program of its own, so the kernels share one set of   *)
(* variables named after the programs' locals (i, j, total, x, acc, ...);  *)
(* `kernel` says which program a behaviour runs and the locals that        *)
(* program does not have keep their initial value.                         *)
(***************************************************************************)
EXTENDS Integers, Sequences, FiniteSets, TLC

VARIABLES
    kernel,     \* which program runs
    pc,         \* the program's position
    out,        \* the text printed so far ("" before the print)
    n, m,       \* loopsum's parameters; primecount's loop variable n
    i, j,       \* loop variables
    total,      \* loopsum's and primecount's accumulator
    stack,      \* the call stack of the recursive functions
    limit,      \* count_primes' parameter
    count,      \* count_primes' local
    rep,        \* how many of main's repetitions have started (the `_` loop)
    x, acc,     \* lcg_hash's recurrence value and accumulator
    N, STEPS,   \* iteration count (lcg_hash), particle and step counts
    step,       \* particles' outer loop variable
    ps,         \* particles' list of Particle references
    heap,       \* the objects allocated by particles
    checksum,   \* particles' checksum
    cfile,      \* lit.cfg.py's __file__
    cwd,        \* the process's working directory, or NoCwd
    config,     \* lit's config object
    err,        \* the exception that left the configuration script, or "none"
    executed    \* tests run by the harness after the configuration loaded

vars == <<kernel, pc, out, n, m, i, j, total, stack, limit, count, rep, x, acc,
          N, STEPS, step, ps, heap, checksum, cfile, cwd, config, err, executed>>

loopVars == <<n, m, i, j, total>>
primeVars == <<limit, count, rep>>
lcgVars == <<x, acc>>
partVars == <<N, STEPS, step, ps, heap, checksum>>
cfgVars == <<cfile, cwd, config, err, executed>>

NoCwd == <<"<deleted>">>

(***************************************************************************)
(* Bounds of the model.                                                    *)
(***************************************************************************)
MaxLoop == 5
MaxLoopSteps == 18000
MaxFibN == 12
MaxLimit == 26
MaxIter == 20
MaxN == 4
MaxSteps == 8
BigSteps == 24000
MaxDepth == 2
MaxTests == 2
MaxStack == 40

(***************************************************************************)
(* The initial values of each program's locals; a program's Init replaces  *)
(* the conjunct of its own locals.                                         *)
(***************************************************************************)
BlankCommon == pc = "start" /\ out = "" /\ stack = <<>>

BlankLoop == n = 0 /\ m = 0 /\ i = 0 /\ j = 0 /\ total = 0

BlankPrime == limit = 0 /\ count = 0 /\ rep = 0

BlankLcg == x = <<>> /\ acc = <<>>

BlankPart ==
    N = 0 /\ STEPS = 0 /\ step = 0 /\ ps = <<>> /\ heap = <<>> /\ checksum = 0

BlankCfg ==
    /\ cfile = <<>> /\ cwd = NoCwd /\ config = <<>>
    /\ err = "none" /\ executed = 0

(***************************************************************************)
(* Text.  str(v) of a non-negative int, and f"{float(v):.6f}".             *)
(***************************************************************************)
Digit == <<"0", "1", "2", "3", "4", "5", "6", "7", "8", "9">>

RECURSIVE Str(_)
Str(v) ==
    IF v < 10 THEN Digit[v + 1] ELSE Str(v \div 10) \o Digit[(v % 10) + 1]

\* float(v): the binary64 nearest to v, as mantissa * 2^exp with an odd
\* mantissa.  An int below 2^53 converts exactly, and every int of the
\* model is below 2^31.
RECURSIVE Normalise(_, _)
Normalise(mant, exp) ==
    IF mant # 0 /\ mant % 2 = 0 THEN Normalise(mant \div 2, exp + 1)
    ELSE [mant |-> mant, exp |-> exp]

Float(v) == Normalise(v, 0)

RECURSIVE Scale(_, _)
Scale(mant, exp) == IF exp = 0 THEN mant ELSE Scale(2 * mant, exp - 1)

\* format(f, ".6f") of a float with a non-negative exponent: the integer
\* part, the point and six fractional digits, all zero.
FormatFixed6(f) == Str(Scale(f.mant, f.exp)) \o "." \o "000000"

(***************************************************************************)
(* chapter14/bench/cases/loopsum.py                                        *)
(***************************************************************************)
LoopFixedInput == <<10000, 10000>>

LoopSmallInputs == (0..MaxLoop) \X (0..MaxLoop)

LoopInputs == LoopSmallInputs \cup {LoopFixedInput}

InitLoopsumOn(inputs) ==
    /\ kernel = "loopsum"
    /\ BlankCommon /\ BlankPrime /\ BlankLcg /\ BlankPart /\ BlankCfg
    /\ \E nm \in inputs : n = nm[1] /\ m = nm[2]
    /\ i = 0 /\ j = 0
    /\ total = 0

InitLoopsum == InitLoopsumOn(LoopInputs)

\* Inner-loop bodies run so far.
LoopBodies == IF i = 0 THEN 0 ELSE (i - 1) * m + j

\* line 3: the outer loop takes its next i and enters the inner loop.
LoopsumOuter ==
    /\ kernel = "loopsum" /\ pc = "start"
    /\ i < n
    /\ i' = i + 1
    /\ j' = 0
    /\ pc' = "inner"
    /\ UNCHANGED <<kernel, out, n, m, total, stack>>
    /\ UNCHANGED <<primeVars, lcgVars, partVars, cfgVars>>

\* A slip in line 5: the sum of the loop variables, not their product.
LoopsumBodySum(ii, jj, t) == t + ii + jj

\* line 5: total += i * j
LoopsumBody(ii, jj, t) == t + ii * jj

\* lines 4-5: the inner loop takes its next j and adds i * j.
LoopsumInner ==
    /\ kernel = "loopsum" /\ pc = "inner"
    /\ j < m
    /\ LoopBodies < MaxLoopSteps
    /\ j' = j + 1
    /\ total' = LoopsumBody(i, j + 1, total)
    /\ UNCHANGED <<kernel, pc, out, n, m, i, stack>>
    /\ UNCHANGED <<primeVars, lcgVars, partVars, cfgVars>>

\* line 4: the inner range is exhausted.
LoopsumInnerEnd ==
    /\ kernel = "loopsum" /\ pc = "inner"
    /\ j >= m
    /\ pc' = "start"
    /\ UNCHANGED <<kernel, out, loopVars, stack>>
    /\ UNCHANGED <<primeVars, lcgVars, partVars, cfgVars>>

\* lines 6 and 10: the outer range is exhausted; loopsum returns total and
\* main prints it.
LoopsumPrint ==
    /\ kernel = "loopsum" /\ pc = "start"
    /\ i >= n
    /\ out' = FormatFixed6(Float(total))
    /\ pc' = "done"
    /\ UNCHANGED <<kernel, loopVars, stack>>
    /\ UNCHANGED <<primeVars, lcgVars, partVars, cfgVars>>

NextLoopsum == LoopsumOuter \/ LoopsumInner \/ LoopsumInnerEnd \/ LoopsumPrint

SpecLoopsum == InitLoopsum /\ [][NextLoopsum]_vars

\* 1 + 2 + ... + k
Tri(k) == (k * (k + 1)) \div 2

\* C1, as stated: loopsum(10000, 10000) accumulates 100000000 and main prints
\* 100000000.000000.  Line 5 only ever adds a positive product, so a run that
\* ends with total = 100000000 never holds a larger total on the way.
C1_Prints100000000 ==
    (kernel = "loopsum" /\ <<n, m>> = LoopFixedInput) =>
        /\ total <= 100000000
        /\ pc = "done" => out = "100000000.000000"

\* C1, amended: after i - 1 full rows and j bodies of row i the total is
\* Tri(m) * Tri(i - 1) + i * Tri(j), so loopsum(n, m) returns
\* Tri(n) * Tri(m) (2500500025000000 for 10000, 10000) and main prints that
\* number followed by a point and six zeros.
C1_LoopsumClosedForm ==
    kernel = "loopsum" =>
        /\ pc = "inner" => total = Tri(m) * Tri(i - 1) + i * Tri(j)
        /\ pc = "start" => total = Tri(m) * Tri(i)
        /\ pc = "done" =>
            /\ total = Tri(n) * Tri(m)
            /\ out = Str(Tri(n) * Tri(m)) \o ".000000"

\* loopsum(4, 3) has returned 10 * 6 and main has printed it.
C1_Witness ==
    /\ kernel = "loopsum" /\ pc = "done"
    /\ n = 4 /\ m = 3 /\ total = 60 /\ out = "60.000000"

(***************************************************************************)
(* The call stack.  A frame holds the function, its arguments, where the   *)
(* call stands (`at`) and the value it holds or returns (`val`).           *)
(***************************************************************************)
Top == stack[Len(stack)]

Frame(fn, a, b, v) == [fn |-> fn, n |-> a, d |-> b, at |-> "entry", val |-> v]

\* The running call returns v: it stays on the stack, marked "ret", until
\* its caller takes the value.
ReturnValue(v) ==
    stack' = [stack EXCEPT ![Len(stack)].at = "ret", ![Len(stack)].val = v]

\* The running call moves to `at` and calls f.
CallFrom(at, f) ==
    /\ Len(stack) < MaxStack
    /\ stack' = Append([stack EXCEPT ![Len(stack)].at = at], f)

\* The caller of the returned call takes its value as v and moves to `at`.
Resume(at, v) ==
    stack' = [SubSeq(stack, 1, Len(stack) - 1)
                 EXCEPT ![Len(stack) - 1].at = at, ![Len(stack) - 1].val = v]

Returned == Len(stack) >= 2 /\ Top.at = "ret"

Caller == stack[Len(stack) - 1]

Running(fn, at) == stack # <<>> /\ Top.fn = fn /\ Top.at = at

(***************************************************************************)
(* chapter15/bench/cases/fib39.py                                          *)
(***************************************************************************)
FibInputs == -2..MaxFibN

InitFib ==
    /\ kernel = "fib"
    /\ pc = "start" /\ out = ""
    /\ \E k \in FibInputs : stack = <<Frame("fib", k, 0, 0)>>
    /\ BlankLoop /\ BlankPrime /\ BlankLcg /\ BlankPart /\ BlankCfg

\* A slip in line 2: fib(2) recurses.
FibIsBaseOff(k) == k < 2

\* A slip in line 2: only fib(2) is a base case.
FibIsBaseOnly2(k) == k = 2

\* line 2: if n < 3
FibIsBase(k) == k < 3

\* lines 2-3: return 1
FibBase ==
    /\ kernel = "fib" /\ pc = "start"
    /\ Running("fib", "entry")
    /\ FibIsBase(Top.n)
    /\ ReturnValue(1)
    /\ UNCHANGED <<kernel, pc, out>>
    /\ UNCHANGED <<loopVars, primeVars, lcgVars, partVars, cfgVars>>

\* line 4: the left operand, fib(n - 1)
FibCallFirst ==
    /\ kernel = "fib" /\ pc = "start"
    /\ Running("fib", "entry")
    /\ ~FibIsBase(Top.n)
    /\ CallFrom("first", Frame("fib", Top.n - 1, 0, 0))
    /\ UNCHANGED <<kernel, pc, out>>
    /\ UNCHANGED <<loopVars, primeVars, lcgVars, partVars, cfgVars>>

\* line 4: fib(n - 1) has returned; its value is kept
FibFirstReturned ==
    /\ kernel = "fib" /\ pc = "start"
    /\ Returned /\ Caller.fn = "fib" /\ Caller.at = "first"
    /\ Resume("mid", Top.val)
    /\ UNCHANGED <<kernel, pc, out>>
    /\ UNCHANGED <<loopVars, primeVars, lcgVars, partVars, cfgVars>>

\* line 4: the right operand, fib(n - 2)
FibCallSecond ==
    /\ kernel = "fib" /\ pc = "start"
    /\ Running("fib", "mid")
    /\ CallFrom("second", Frame("fib", Top.n - 2, 0, 0))
    /\ UNCHANGED <<kernel, pc, out>>
    /\ UNCHANGED <<loopVars, primeVars, lcgVars, partVars, cfgVars>>

\* line 4: fib(n - 2) has returned; the sum is returned
FibSecondReturned ==
    /\ kernel = "fib" /\ pc = "start"
    /\ Returned /\ Caller.fn = "fib" /\ Caller.at = "second"
    /\ stack' = [SubSeq(stack, 1, Len(stack) - 1)
                    EXCEPT ![Len(stack) - 1].at = "ret",
                           ![Len(stack) - 1].val = Caller.val + Top.val]
    /\ UNCHANGED <<kernel, pc, out>>
    /\ UNCHANGED <<loopVars, primeVars, lcgVars, partVars, cfgVars>>

\* line 8: main prints the value its call returned
FibPrint ==
    /\ kernel = "fib" /\ pc = "start"
    /\ Len(stack) = 1 /\ Top.at = "ret"
    /\ out' = FormatFixed6(Float(Top.val))
    /\ pc' = "done"
    /\ UNCHANGED <<kernel, stack>>
    /\ UNCHANGED <<loopVars, primeVars, lcgVars, partVars, cfgVars>>

NextFib ==
    \/ FibBase \/ FibCallFirst \/ FibFirstReturned
    \/ FibCallSecond \/ FibSecondReturned \/ FibPrint

SpecFib == InitFib /\ [][NextFib]_vars

\* Terms k and k + 1 of the sequence 1, 1, 2, 3, 5, ..., built upwards.
RECURSIVE FibPair(_)
FibPair(k) ==
    IF k = 1 THEN <<1, 1>>
    ELSE LET p == FibPair(k - 1) IN <<p[2], p[1] + p[2]>>

FibTerm(k) == FibPair(k)[1]

\* C2: every call fib(k) with k >= 1 returns the k-th term of the sequence
\* 1, 1, 2, 3, 5, ..., and main prints the term its call returned as a
\* decimal with six fractional digits.
C2_FibReturnsTerm ==
    kernel = "fib" =>
        /\ \A f \in 1..Len(stack) :
              (stack[f].at = "ret" /\ stack[f].n >= 1) =>
                  stack[f].val = FibTerm(stack[f].n)
        /\ (pc = "done" /\ stack[1].n >= 1) =>
              out = Str(FibTerm(stack[1].n)) \o ".000000"

\* fib(10) has returned 55 through its recursion and main has printed it.
C2_Witness ==
    /\ kernel = "fib" /\ pc = "done"
    /\ stack[1].n = 10 /\ stack[1].val = 55 /\ out = "55.000000"

(***************************************************************************)
(* chapter19/bench/cases/primecount.py                                     *)
(***************************************************************************)
PrimeReps == 10

InitPrimecount ==
    /\ kernel = "primecount"
    /\ BlankCommon
    /\ n = 0 /\ m = 0 /\ i = 0 /\ j = 0
    /\ total = 0
    /\ limit \in 0..MaxLimit
    /\ count = 0 /\ rep = 0
    /\ BlankLcg /\ BlankPart /\ BlankCfg

primeLocals == <<n, total, limit, count, rep>>

primeRest == <<m, i, j, lcgVars, partVars, cfgVars>>

\* A slip in line 24: count keeps the value the previous call left.
CountPrimesEntryStale(c) == c

\* line 24: count = 0
CountPrimesEntry(c) == 0

\* lines 33-34 and 24: main's next repetition calls count_primes(limit).
PrimeMainCall ==
    /\ kernel = "primecount" /\ pc = "start"
    /\ rep < PrimeReps
    /\ rep' = rep + 1
    /\ count' = CountPrimesEntry(count)
    /\ n' = 1
    /\ pc' = "count"
    /\ UNCHANGED <<kernel, out, stack, total, limit, primeRest>>

\* lines 25-26: the loop takes its next n from range(2, limit + 1) and calls
\* is_prime(n).
PrimeLoopCall ==
    /\ kernel = "primecount" /\ pc = "count"
    /\ n < limit
    /\ n' = n + 1
    /\ stack' = <<Frame("is_prime", n + 1, 0, FALSE)>>
    /\ pc' = "test"
    /\ UNCHANGED <<kernel, out, total, limit, count, rep, primeRest>>

\* lines 18-20: if n < 2: return False; return is_prime_from(n, 2)
IsPrimeEntry ==
    /\ kernel = "primecount" /\ pc = "test"
    /\ Running("is_prime", "entry")
    /\ IF Top.n < 2
       THEN ReturnValue(FALSE)
       ELSE CallFrom("wait", Frame("is_prime_from", Top.n, 2, FALSE))
    /\ UNCHANGED <<kernel, pc, out, primeLocals, primeRest>>

\* lines 10-11: if d * d > n: return True
IsPrimeFromDone ==
    /\ kernel = "primecount" /\ pc = "test"
    /\ Running("is_prime_from", "entry")
    /\ Top.d * Top.d > Top.n
    /\ ReturnValue(TRUE)
    /\ UNCHANGED <<kernel, pc, out, primeLocals, primeRest>>

\* line 12: the condition divisible(n, d)
IsPrimeFromTest ==
    /\ kernel = "primecount" /\ pc = "test"
    /\ Running("is_prime_from", "entry")
    /\ ~(Top.d * Top.d > Top.n)
    /\ CallFrom("test", Frame("divisible", Top.n, Top.d, FALSE))
    /\ UNCHANGED <<kernel, pc, out, primeLocals, primeRest>>

\* line 12: divisible(n, d) has returned
IsPrimeFromTested ==
    /\ kernel = "primecount" /\ pc = "test"
    /\ Returned /\ Caller.fn = "is_prime_from" /\ Caller.at = "test"
    /\ Resume("tested", Top.val)
    /\ UNCHANGED <<kernel, pc, out, primeLocals, primeRest>>

\* lines 12-13: if divisible(n, d): return False
IsPrimeFromComposite ==
    /\ kernel = "primecount" /\ pc = "test"
    /\ Running("is_prime_from", "tested")
    /\ Top.val
    /\ ReturnValue(FALSE)
    /\ UNCHANGED <<kernel, pc, out, primeLocals, primeRest>>

\* line 14: return is_prime_from(n, d + 1)
IsPrimeFromNext ==
    /\ kernel = "primecount" /\ pc = "test"
    /\ Running("is_prime_from", "tested")
    /\ ~Top.val
    /\ CallFrom("wait", Frame("is_prime_from", Top.n, Top.d + 1, FALSE))
    /\ UNCHANGED <<kernel, pc, out, primeLocals, primeRest>>

\* line 4: if n < d + 1
DivisibleExact(a, b) == a < b + 1

\* lines 2-3: if n < d: return False
DivisibleNo ==
    /\ kernel = "primecount" /\ pc = "test"
    /\ Running("divisible", "entry")
    /\ Top.n < Top.d
    /\ ReturnValue(FALSE)
    /\ UNCHANGED <<kernel, pc, out, primeLocals, primeRest>>

\* lines 4-5: if n < d + 1: return True
DivisibleYes ==
    /\ kernel = "primecount" /\ pc = "test"
    /\ Running("divisible", "entry")
    /\ ~(Top.n < Top.d)
    /\ DivisibleExact(Top.n, Top.d)
    /\ ReturnValue(TRUE)
    /\ UNCHANGED <<kernel, pc, out, primeLocals, primeRest>>

\* line 6: return divisible(n - d, d)
DivisibleRecurse ==
    /\ kernel = "primecount" /\ pc = "test"
    /\ Running("divisible", "entry")
    /\ ~(Top.n < Top.d)
    /\ ~DivisibleExact(Top.n, Top.d)
    /\ CallFrom("wait", Frame("divisible", Top.n - Top.d, Top.d, FALSE))
    /\ UNCHANGED <<kernel, pc, out, primeLocals, primeRest>>

\* lines 6, 14 and 20: a call in return position has returned; its caller
\* returns the same value.
PrimeTailReturned ==
    /\ kernel = "primecount" /\ pc = "test"
    /\ Returned /\ Caller.at = "wait"
    /\ Resume("ret", Top.val)
    /\ UNCHANGED <<kernel, pc, out, primeLocals, primeRest>>

\* lines 26-27: is_prime(n) has returned to the loop: if it is true, count += 1
PrimeLoopTested ==
    /\ kernel = "primecount" /\ pc = "test"
    /\ Len(stack) = 1 /\ Top.at = "ret"
    /\ count' = IF Top.val THEN count + 1 ELSE count
    /\ stack' = <<>>
    /\ pc' = "count"
    /\ UNCHANGED <<kernel, out, n, total, limit, rep, primeRest>>

\* lines 28 and 34: the range is exhausted; count_primes returns count and
\* main adds it to total.
PrimeCountReturn ==
    /\ kernel = "primecount" /\ pc = "count"
    /\ n >= limit
    /\ total' = total + count
    /\ pc' = "start"
    /\ UNCHANGED <<kernel, out, stack, n, limit, count, rep, primeRest>>

\* line 35: after the last repetition main prints total.
PrimePrint ==
    /\ kernel = "primecount" /\ pc = "start"
    /\ rep >= PrimeReps
    /\ out' = FormatFixed6(Float(total))
    /\ pc' = "done"
    /\ UNCHANGED <<kernel, stack, primeLocals, primeRest>>

NextPrimecount ==
    \/ PrimeMainCall \/ PrimeLoopCall \/ IsPrimeEntry
    \/ IsPrimeFromDone \/ IsPrimeFromTest \/ IsPrimeFromTested
    \/ IsPrimeFromComposite \/ IsPrimeFromNext
    \/ DivisibleNo \/ DivisibleYes \/ DivisibleRecurse
    \/ PrimeTailReturned \/ PrimeLoopTested \/ PrimeCountReturn \/ PrimePrint

SpecPrimecount == InitPrimecount /\ [][NextPrimecount]_vars

\* k is prime: at least 2 and without a divisor strictly between 1 and k.
IsPrimeNumber(k) == k >= 2 /\ \A e \in 2..(k - 1) : k % e # 0

\* The number of primes p with 2 <= p <= k.
PrimesUpTo(k) == Cardinality({p \in 2..k : IsPrimeNumber(p)})

\* C3: divisible(n, d) returns whether d divides n (n >= 2, d >= 2),
\* is_prime(n) returns whether n is prime, count_primes(limit) returns the
\* number of primes <= limit, each of main's 10 repetitions adds that same
\* number to total, and main prints 10 times it with six fractional digits.
C3_PrintsTenTimesPrimeCount ==
    kernel = "primecount" =>
        /\ \A f \in 1..Len(stack) :
              stack[f].at = "ret" =>
                  /\ (stack[f].fn = "divisible" /\ stack[f].n >= 2 /\ stack[f].d >= 2)
                        => (stack[f].val <=> (stack[f].n % stack[f].d = 0))
                  /\ stack[f].fn = "is_prime"
                        => (stack[f].val <=> IsPrimeNumber(stack[f].n))
        /\ pc = "count" =>
              /\ count = PrimesUpTo(IF n < limit THEN n ELSE limit)
              /\ total = (rep - 1) * PrimesUpTo(limit)
        /\ pc = "start" => total = rep * PrimesUpTo(limit)
        /\ pc = "done" => out = Str(PrimeReps * PrimesUpTo(limit)) \o ".000000"

\* With limit = 19 (8 primes) main has printed 80, and divisible and
\* is_prime were exercised on the way.
C3_Witness ==
    /\ kernel = "primecount" /\ pc = "done"
    /\ limit = 19 /\ total = 80 /\ out = "80.000000"

(***************************************************************************)
(* Python's unbounded non-negative ints, as decimal digits with the least  *)
(* significant digit first and no leading zero (zero is <<>>).  lcg_hash   *)
(* forms products of about 10^14, beyond the 32 bits of a TLC integer.     *)
(* The operations are functions, whose arguments are evaluated once.       *)
(***************************************************************************)
RECURSIVE BigOf(_)
BigOf(v) == IF v = 0 THEN <<>> ELSE <<v % 10>> \o BigOf(v \div 10)

RECURSIVE Trim(_)
Trim(a) ==
    IF a # <<>> /\ a[Len(a)] = 0 THEN Trim(SubSeq(a, 1, Len(a) - 1)) ELSE a

DigitAt(a, k) == IF k <= Len(a) THEN a[k] ELSE 0

RECURSIVE AddFrom(_, _, _, _)
AddFrom(a, b, k, carry) ==
    IF k > Len(a) /\ k > Len(b)
    THEN (IF carry = 0 THEN <<>> ELSE <<carry>>)
    ELSE LET sum == DigitAt(a, k) + DigitAt(b, k) + carry
         IN  <<sum % 10>> \o AddFrom(a, b, k + 1, sum \div 10)

\* a + b
BigAdd[a \in Seq(0..9), b \in Seq(0..9)] == AddFrom(a, b, 1, 0)

RECURSIVE MulFrom(_, _, _, _)
MulFrom(a, c, k, carry) ==
    IF k > Len(a) THEN BigOf(carry)
    ELSE LET prod == a[k] * c + carry
         IN  <<prod % 10>> \o MulFrom(a, c, k + 1, prod \div 10)

\* a * c, for a TLC integer c
BigMulInt[a \in Seq(0..9), c \in Nat] == Trim(MulFrom(a, c, 1, 0))

RECURSIVE LessFrom(_, _, _)
LessFrom(a, b, k) ==
    IF k = 0 THEN FALSE
    ELSE IF a[k] # b[k] THEN a[k] < b[k]
    ELSE LessFrom(a, b, k - 1)

\* a < b
BigLess[a \in Seq(0..9), b \in Seq(0..9)] ==
    IF Len(a) # Len(b) THEN Len(a) < Len(b) ELSE LessFrom(a, b, Len(a))

RECURSIVE SubFrom(_, _, _, _)
SubFrom(a, b, k, borrow) ==
    IF k > Len(a) THEN <<>>
    ELSE LET diff == a[k] - DigitAt(b, k) - borrow
         IN  IF diff < 0
             THEN <<diff + 10>> \o SubFrom(a, b, k + 1, 1)
             ELSE <<diff>> \o SubFrom(a, b, k + 1, 0)

\* a - b, for a >= b
BigSub[a \in Seq(0..9), b \in Seq(0..9)] == Trim(SubFrom(a, b, 1, 0))

\* a with b taken off until it is below b
Reduce[a \in Seq(0..9), b \in Seq(0..9)] ==
    IF BigLess[a, b] THEN a ELSE Reduce[BigSub[a, b], b]

\* The remainder r of the digits above the k-th takes in the k-th digit.
ModFrom[a \in Seq(0..9), b \in Seq(0..9), k \in Nat, r \in Seq(0..9)] ==
    IF k = 0 THEN r
    ELSE ModFrom[a, b, k - 1, Reduce[Trim(<<a[k]>> \o r), b]]

\* a % b for b > 0, by long division from the most significant digit
BigMod[a \in Seq(0..9), b \in Seq(0..9)] == ModFrom[a, b, Len(a), <<>>]

RECURSIVE DigitsStr(_, _)
DigitsStr(a, k) ==
    IF k = 0 THEN "" ELSE Digit[a[k] + 1] \o DigitsStr(a, k - 1)

\* str(a)
BigStr(a) == IF a = <<>> THEN "0" ELSE DigitsStr(a, Len(a))

IsBig(a) ==
    /\ a \in Seq(0..9)
    /\ a # <<>> => a[Len(a)] # 0

(***************************************************************************)
(* chapter25/bench/cases/lcg_hash.py                                       *)
(***************************************************************************)
LcgMODV == 2147483647

LcgSeed == 1234567

LcgMul == 48271

\* The program's N is 200000000; the model runs the loop for every N up to
\* MaxIter.
InitLcg ==
    /\ kernel = "lcg_hash"
    /\ BlankCommon
    /\ n = 0 /\ m = 0 /\ j = 0 /\ total = 0
    /\ x = BigOf(LcgSeed)
    /\ acc = <<>>
    /\ i = 0
    /\ N \in 0..MaxIter
    /\ STEPS = 0 /\ step = 0 /\ ps = <<>> /\ heap = <<>> /\ checksum = 0
    /\ BlankPrime /\ BlankCfg

lcgRest ==
    <<n, m, j, total, stack, N, STEPS, step, ps, heap, checksum,
      primeVars, cfgVars>>

\* line 11: x = (x * 48_271) % MODV
LcgNextX(xv) == BigMod[BigMulInt[xv, LcgMul], BigOf(LcgMODV)]

\* A slip in line 12: the sum is not reduced.
LcgNextAccUnreduced(a, xv, iv) == BigAdd[BigAdd[a, xv], BigOf(iv)]

\* line 12: acc = (acc + x + i) % MODV
LcgNextAcc(a, xv, iv) ==
    BigMod[BigAdd[BigAdd[a, xv], BigOf(iv)], BigOf(LcgMODV)]

\* lines 10-13: one iteration of the loop
LcgIterate ==
    /\ kernel = "lcg_hash" /\ pc = "start"
    /\ i < N
    /\ LET nx == LcgNextX(x)
       IN  /\ x' = nx
           /\ acc' = LcgNextAcc(acc, nx, i)
    /\ i' = i + 1
    /\ UNCHANGED <<kernel, pc, out, lcgRest>>

\* lines 10 and 15: the loop ends and main prints acc.
LcgPrint ==
    /\ kernel = "lcg_hash" /\ pc = "start"
    /\ ~(i < N)
    /\ out' = BigStr(acc)
    /\ pc' = "done"
    /\ UNCHANGED <<kernel, i, x, acc, lcgRest>>

NextLcg == LcgIterate \/ LcgPrint

SpecLcg == InitLcg /\ [][NextLcg]_vars

\* C4: after any number of iterations x and acc are integers in
\* [0, 2147483647), and so is the accumulator main prints.
C4_LcgInRange ==
    kernel = "lcg_hash" =>
        /\ IsBig(x) /\ BigLess[x, BigOf(LcgMODV)]
        /\ IsBig(acc) /\ BigLess[acc, BigOf(LcgMODV)]
        /\ pc = "done" => out = BigStr(acc)

\* Five iterations have run (the second and the fifth wrapped the
\* accumulator) and main has printed the accumulator.
C4_Witness ==
    /\ kernel = "lcg_hash" /\ pc = "done"
    /\ N = 5 /\ i = 5
    /\ x = BigOf(358873365)
    /\ acc = BigOf(246245781)
    /\ out = "246245781"

(***************************************************************************)
(* chapter21/bench/cases/particles_heavy.py                                *)
(*                                                                         *)
(* The heap is a sequence of objects and a reference is an index into it:  *)
(* a Particle refers to its two Vec2 and to its list of bins.              *)
(***************************************************************************)
PartMODV == 1000000007

\* The program's N and STEPS are 80000 and 800; the model runs every pair
\* up to MaxN and MaxSteps, and MaxN particles for BigSteps steps, which is
\* long enough for the checksum to pass MODV.
PartSmallInputs == (0..MaxN) \X (0..MaxSteps)

PartInputs == PartSmallInputs \cup {<<MaxN, BigSteps>>}

InitParticlesOn(inputs) ==
    /\ kernel = "particles"
    /\ BlankCommon
    /\ n = 0 /\ m = 0 /\ j = 0 /\ total = 0
    /\ i = 0
    /\ \E ns \in inputs : N = ns[1] /\ STEPS = ns[2]
    /\ step = 0
    /\ ps = <<>>
    /\ heap = <<>>
    /\ checksum = 0
    /\ BlankPrime /\ BlankLcg /\ BlankCfg

InitParticles == InitParticlesOn(PartInputs)

partRest == <<n, m, j, total, stack, x, acc, primeVars, cfgVars>>

\* lines 9-11: Vec2(x, y)
Vec2(vx, vy) == [cls |-> "Vec2", x |-> vx, y |-> vy]

\* A slip in line 21: every particle is given the first particle's list.
ParticleShared(h, pid) ==
    LET a == Len(h) + 1
    IN  IF h = <<>>
        THEN h \o << [cls |-> "Particle", id |-> pid,
                      pos |-> a + 1, vel |-> a + 2, bins |-> a + 3],
                     Vec2(pid, pid * 2),
                     Vec2(1 + pid, 2 - pid),
                     [cls |-> "list", items |-> <<pid + 0, pid + 1, pid + 2, pid + 3>>] >>
        ELSE h \o << [cls |-> "Particle", id |-> pid,
                      pos |-> a + 1, vel |-> a + 2, bins |-> h[1].bins],
                     Vec2(pid, pid * 2),
                     Vec2(1 + pid, 2 - pid) >>

\* lines 17-21: Particle(pid) allocates the particle, its pos, its vel and
\* its bins; the particle is the object at Len(h) + 1.
Particle(h, pid) ==
    LET a == Len(h) + 1
    IN  h \o << [cls |-> "Particle", id |-> pid,
                 pos |-> a + 1, vel |-> a + 2, bins |-> a + 3],
                Vec2(pid, pid * 2),
                Vec2(1 + pid, 2 - pid),
                [cls |-> "list", items |-> <<pid + 0, pid + 1, pid + 2, pid + 3>>] >>

\* line 25: the comprehension builds its next Particle.
PartBuild ==
    /\ kernel = "particles" /\ pc = "start"
    /\ Len(ps) < N
    /\ heap' = Particle(heap, Len(ps))
    /\ ps' = Append(ps, Len(heap) + 1)
    /\ UNCHANGED <<kernel, pc, out, i, N, STEPS, step, checksum, partRest>>

\* lines 25 and 27: the list is complete; step = 0
PartBuilt ==
    /\ kernel = "particles" /\ pc = "start"
    /\ ~(Len(ps) < N)
    /\ step' = 0
    /\ pc' = "step"
    /\ UNCHANGED <<kernel, out, i, N, STEPS, ps, heap, checksum, partRest>>

\* lines 28-29: while step < STEPS: i = 0
PartStepBegin ==
    /\ kernel = "particles" /\ pc = "step"
    /\ step < STEPS
    /\ i' = 0
    /\ pc' = "update"
    /\ UNCHANGED <<kernel, out, N, STEPS, step, ps, heap, checksum, partRest>>

\* lines 31-35: the update of the particle ps[i] (ps[k + 1] here) in step s
UpdateParticle(h, p, k, s) ==
    LET part == h[p[k + 1]]
        slot == s % 4
    IN  [h EXCEPT ![part.pos].x = h[part.pos].x + h[part.vel].x,
                  ![part.pos].y = h[part.pos].y + h[part.vel].y,
                  ![part.bins].items[slot + 1] =
                      h[part.bins].items[slot + 1] + k + s]

\* lines 30-36: the inner loop updates its next particle.
PartUpdate ==
    /\ kernel = "particles" /\ pc = "update"
    /\ i < N
    /\ heap' = UpdateParticle(heap, ps, i, step)
    /\ i' = i + 1
    /\ UNCHANGED <<kernel, pc, out, N, STEPS, step, ps, checksum, partRest>>

\* lines 30 and 37: the inner loop ends; step += 1
PartStepEnd ==
    /\ kernel = "particles" /\ pc = "update"
    /\ ~(i < N)
    /\ step' = step + 1
    /\ pc' = "step"
    /\ UNCHANGED <<kernel, out, i, N, STEPS, ps, heap, checksum, partRest>>

\* lines 28 and 39-40: the outer loop ends; checksum = 0; i = 0
PartSumBegin ==
    /\ kernel = "particles" /\ pc = "step"
    /\ ~(step < STEPS)
    /\ checksum' = 0
    /\ i' = 0
    /\ pc' = "sum"
    /\ UNCHANGED <<kernel, out, N, STEPS, step, ps, heap, partRest>>

\* line 43: p.pos.x + p.pos.y + p.bins[0] + p.bins[1] + p.bins[2] + p.bins[3]
Terms(h, p, k) ==
    LET part == h[p[k + 1]]
    IN  h[part.pos].x + h[part.pos].y + h[part.bins].items[1]
          + h[part.bins].items[2] + h[part.bins].items[3] + h[part.bins].items[4]

\* A slip in line 43: the sum is not reduced.
AccumulateUnreduced(c, t) == c + t

\* line 43: checksum = (checksum + ...) % MODV, Python's % (the sign of the
\* divisor), which is TLA+'s.
Accumulate(c, t) == (c + t) % PartMODV

\* lines 41-44: the summing loop adds its next particle.
PartSum ==
    /\ kernel = "particles" /\ pc = "sum"
    /\ i < N
    /\ checksum' = Accumulate(checksum, Terms(heap, ps, i))
    /\ i' = i + 1
    /\ UNCHANGED <<kernel, pc, out, N, STEPS, step, ps, heap, partRest>>

\* lines 41 and 46: the summing loop ends and main prints checksum.
PartPrint ==
    /\ kernel = "particles" /\ pc = "sum"
    /\ ~(i < N)
    /\ out' = Str(checksum)
    /\ pc' = "done"
    /\ UNCHANGED <<kernel, i, N, STEPS, step, ps, heap, checksum, partRest>>

NextParticles ==
    \/ PartBuild \/ PartBuilt \/ PartStepBegin \/ PartUpdate \/ PartStepEnd
    \/ PartSumBegin \/ PartSum \/ PartPrint

SpecParticles == InitParticles /\ [][NextParticles]_vars

\* What particle k is, its references followed.
View(h, p, k) ==
    LET part == h[p[k + 1]]
    IN  [id |-> part.id,
         pos |-> <<h[part.pos].x, h[part.pos].y>>,
         vel |-> <<h[part.vel].x, h[part.vel].y>>,
         bins |-> h[part.bins].items]

\* C5: the checksum is in [0, 1000000007) after every accumulation step and
\* when it is printed.
C5_ChecksumInRange ==
    kernel = "particles" =>
        /\ checksum \in 0..(PartMODV - 1)
        /\ pc = "done" => out = Str(checksum)

\* The printed checksum has been reduced (it is smaller than the summed
\* term of one of the particles) and a summed pos.y was negative.
C5_Witness ==
    /\ kernel = "particles" /\ pc = "done"
    /\ \E k \in 0..(N - 1) : Terms(heap, ps, k) > checksum
    /\ \E k \in 0..(N - 1) : View(heap, ps, k).pos[2] < 0
    /\ out = Str(checksum)

\* What the update of particle k in step s makes of the particle v.
Updated(v, k, s) ==
    [v EXCEPT !.pos = <<v.pos[1] + v.vel[1], v.pos[2] + v.vel[2]>>,
              !.bins[(s % 4) + 1] = v.bins[(s % 4) + 1] + k + s]

\* q increments of bin b of particle k, one in each step s < 4q with
\* s % 4 = b, each adding k + s to the initial k + b.
BinAfter(k, b, q) == k + b + q * (k + b) + 2 * q * (q - 1)

\* C10: the update of particle i in step s changes pos by vel and
\* bins[s % 4] by i + s, and nothing else of that particle or of any other;
\* so after the STEPS steps every particle has pos = initial pos + STEPS * vel
\* and, for STEPS a multiple of 4, every bin has had its STEPS / 4 increments.
C10_UpdateFrame ==
    /\ [][PartUpdate =>
            /\ ps' = ps
            /\ Len(heap') = Len(heap)
            /\ \A k \in 0..(N - 1) :
                  View(heap', ps', k) =
                      IF k = i THEN Updated(View(heap, ps, k), i, step)
                      ELSE View(heap, ps, k)]_vars
    /\ []((kernel = "particles" /\ pc \in {"sum", "done"}) =>
            \A k \in 0..(N - 1) :
                LET v == View(heap, ps, k)
                IN  /\ v.id = k
                    /\ v.vel = <<1 + k, 2 - k>>
                    /\ v.pos = <<k + STEPS * (1 + k), 2 * k + STEPS * (2 - k)>>
                    /\ STEPS % 4 = 0 =>
                          \A b \in 0..3 : v.bins[b + 1] = BinAfter(k, b, STEPS \div 4))

\* Four particles have been through eight steps: particle 3 has moved by
\* 8 * vel and each of its bins has had 2 increments.
C10_Witness ==
    /\ kernel = "particles" /\ pc = "sum"
    /\ N = 4 /\ STEPS = 8
    /\ View(heap, ps, 3) =
          [id |-> 3, pos |-> <<35, -2>>, vel |-> <<4, -1>>,
           bins |-> <<13, 16, 19, 22>>]

(***************************************************************************)
(* chapter06/test/lit.cfg.py                                               *)
(*                                                                         *)
(* A path string is a sequence of tokens: "/" and the names between the    *)
(* separators.  The os.path functions are posixpath's.                     *)
(***************************************************************************)
Sep == "/"

isabs(p) == p # <<>> /\ p[1] = Sep

\* p.rfind("/") + 1
LastSep(p) ==
    IF \E k \in 1..Len(p) : p[k] = Sep
    THEN CHOOSE k \in 1..Len(p) : p[k] = Sep /\ \A l \in (k + 1)..Len(p) : p[l] # Sep
    ELSE 0

RECURSIVE rstrip(_)
rstrip(p) ==
    IF p # <<>> /\ p[Len(p)] = Sep THEN rstrip(SubSeq(p, 1, Len(p) - 1)) ELSE p

\* os.path.dirname(p)
dirname(p) ==
    LET head == SubSeq(p, 1, LastSep(p))
    IN  IF head # <<>> /\ (\E k \in 1..Len(head) : head[k] # Sep)
        THEN rstrip(head)
        ELSE head

\* os.path.join(a, b)
join(a, b) ==
    IF isabs(b) THEN b
    ELSE IF a = <<>> \/ a[Len(a)] = Sep THEN a \o b
    ELSE a \o <<Sep>> \o b

\* normpath's loop over the components of p, from the k-th token on
RECURSIVE NormComps(_, _, _, _)
NormComps(p, k, slashes, comps) ==
    IF k > Len(p) THEN comps
    ELSE LET comp == p[k]
         IN  IF comp = Sep \/ comp = "."
             THEN NormComps(p, k + 1, slashes, comps)
             ELSE IF \/ comp # ".."
                     \/ (slashes = 0 /\ comps = <<>>)
                     \/ (comps # <<>> /\ comps[Len(comps)] = "..")
             THEN NormComps(p, k + 1, slashes, Append(comps, comp))
             ELSE IF comps # <<>>
             THEN NormComps(p, k + 1, slashes, SubSeq(comps, 1, Len(comps) - 1))
             ELSE NormComps(p, k + 1, slashes, comps)

\* "/".join(comps)
RECURSIVE JoinComps(_)
JoinComps(comps) ==
    IF comps = <<>> THEN <<>>
    ELSE IF Len(comps) = 1 THEN comps
    ELSE <<comps[1], Sep>> \o JoinComps(Tail(comps))

\* os.path.normpath(p)
normpath(p) ==
    IF p = <<>> THEN <<".">>
    ELSE LET slashes ==
                 IF ~isabs(p) THEN 0
                 ELSE IF Len(p) >= 2 /\ p[2] = Sep /\ ~(Len(p) >= 3 /\ p[3] = Sep)
                 THEN 2
                 ELSE 1
             path == [k \in 1..slashes |-> Sep] \o JoinComps(NormComps(p, 1, slashes, <<>>))
         IN  IF path = <<>> THEN <<".">> ELSE path

\* os.path.abspath(p) reads the working directory for a relative p, and
\* os.getcwd() raises FileNotFoundError when that directory is gone.
AbspathRaises(p, wd) == ~isabs(p) /\ wd = NoCwd

abspath(p, wd) == IF isabs(p) THEN normpath(p) ELSE normpath(join(wd, p))

\* The value of lit's config object before the configuration script runs.
NewConfig ==
    [name |-> "", test_format |-> "", suffixes |-> <<>>,
     test_source_root |-> <<"<unset>">>, test_exec_root |-> <<"<unset>">>,
     substitutions |-> <<>>]

DirNames == {"code", "test", ".."}

RECURSIVE Dirs(_)
Dirs(depth) ==
    IF depth = 0 THEN {<<>>}
    ELSE Dirs(depth - 1) \cup
         {<<nm>> : nm \in DirNames} \cup
         {d \o <<Sep, nm>> : d \in Dirs(depth - 1) \ {<<>>}, nm \in DirNames}

\* The paths the script may be loaded from: lit.cfg.py in a directory given
\* relative or absolute.
ConfigFiles ==
    {join(d, <<"lit.cfg.py">>) : d \in Dirs(MaxDepth)}
        \cup {<<Sep>> \o join(d, <<"lit.cfg.py">>) : d \in Dirs(MaxDepth)}

WorkingDirs == {<<Sep>>, <<Sep, "home">>, <<Sep, "home", Sep, "pyxc">>, NoCwd}

InitHarness ==
    /\ kernel = "harness"
    /\ BlankCommon /\ BlankLoop /\ BlankPrime /\ BlankLcg /\ BlankPart
    /\ cfile \in ConfigFiles
    /\ cwd \in WorkingDirs
    /\ config = NewConfig
    /\ err = "none"
    /\ executed = 0

harnessRest ==
    <<out, stack, loopVars, primeVars, lcgVars, partVars>>

\* lines 5-9
ConfigFields(cfg, file) ==
    [cfg EXCEPT !.name = "pyxc-chapter06",
                !.test_format = "ShTest(True)",
                !.suffixes = <<".pyxc">>,
                !.test_source_root = dirname(file),
                !.test_exec_root = dirname(file)]

\* A slip in line 11: the test directory itself is taken as chapter_dir.
ChapterDirSelf(root, wd) == abspath(root, wd)

\* line 11: chapter_dir
ChapterDir(root, wd) == abspath(join(root, <<"..">>), wd)

\* line 12: the substitution appended
Substitution(chapter_dir) ==
    <<"%pyxc", join(join(chapter_dir, <<"build">>), <<"pyxc">>)>>

\* A slip: the token is registered from the unresolved path, before line 11
\* resolves chapter_dir.
ScriptAppendsFirst(cfg, file, wd) ==
    LET set == ConfigFields(cfg, file)
        early == [set EXCEPT !.substitutions =
                     Append(@, Substitution(join(set.test_source_root, <<"..">>)))]
    IN  IF AbspathRaises(join(set.test_source_root, <<"..">>), wd)
        THEN [config |-> early, err |-> "FileNotFoundError"]
        ELSE [config |-> early, err |-> "none"]

\* lines 5-12: the state the script leaves and the exception that ends it
Script(cfg, file, wd) ==
    LET set == ConfigFields(cfg, file)
    IN  IF AbspathRaises(join(set.test_source_root, <<"..">>), wd)
        THEN [config |-> set, err |-> "FileNotFoundError"]
        ELSE [config |-> [set EXCEPT !.substitutions =
                             Append(@, Substitution(ChapterDir(set.test_source_root, wd)))],
              err |-> "none"]

\* The configuration script runs.
LoadConfig ==
    /\ kernel = "harness" /\ pc = "start"
    /\ LET r == Script(config, cfile, cwd)
       IN  /\ config' = r.config
           /\ err' = r.err
           /\ pc' = IF r.err = "none" THEN "configured" ELSE "aborted"
    /\ UNCHANGED <<kernel, cfile, cwd, executed, harnessRest>>

\* The harness runs a test once the configuration has loaded; a
\* configuration that failed to load aborts the run.
RunTest ==
    /\ kernel = "harness" /\ pc = "configured"
    /\ executed < MaxTests
    /\ executed' = executed + 1
    /\ UNCHANGED <<kernel, pc, cfile, cwd, config, err, harnessRest>>

NextHarness == LoadConfig \/ RunTest

SpecHarness == InitHarness /\ [][NextHarness]_vars

\* The names of the directory p, resolved against the working directory wd:
\* "." stays, ".." leaves the last name (the root is its own parent).
RECURSIVE Walk(_, _)
Walk(names, at) ==
    IF names = <<>> THEN at
    ELSE IF names[1] = "." THEN Walk(Tail(names), at)
    ELSE IF names[1] = ".."
    THEN Walk(Tail(names), IF at = <<>> THEN at ELSE SubSeq(at, 1, Len(at) - 1))
    ELSE Walk(Tail(names), Append(at, names[1]))

Names(p) == SelectSeq(p, LAMBDA t : t # Sep)

Resolved(p, wd) == Walk(Names(p), IF isabs(p) THEN <<>> ELSE Names(wd))

ParentOf(names) == IF names = <<>> THEN names ELSE SubSeq(names, 1, Len(names) - 1)

\* The path string of the names below the root.
RECURSIVE PathOf(_)
PathOf(names) ==
    IF names = <<>> THEN <<>> ELSE <<Sep, names[1]>> \o PathOf(Tail(names))

\* C7: once the script has run, the test-source root is the directory of the
\* configuration file, the test-execution root equals it, the suffix is
\* .pyxc, and the one substitution registered is %pyxc, standing for
\* <parent of the test-source root>/build/pyxc.
C7_RegistersCompiler ==
    (kernel = "harness" /\ pc = "configured") =>
        /\ config.test_source_root = dirname(cfile)
        /\ config.test_exec_root = config.test_source_root
        /\ config.suffixes = <<".pyxc">>
        /\ Len(config.substitutions) = 1
        /\ config.substitutions[1][1] = "%pyxc"
        /\ config.substitutions[1][2] =
              PathOf(ParentOf(Resolved(config.test_source_root, cwd)) \o <<"build", "pyxc">>)

\* Loaded from /code/test/lit.cfg.py, the script registered /code/build/pyxc.
C7_Witness ==
    /\ kernel = "harness" /\ pc = "configured"
    /\ cfile = <<Sep, "code", Sep, "test", Sep, "lit.cfg.py">>
    /\ config.test_source_root = <<Sep, "code", Sep, "test">>
    /\ config.substitutions = << <<"%pyxc", <<Sep, "code", Sep, "build", Sep, "pyxc">> >> >>

Unresolvable == ~isabs(dirname(cfile)) /\ cwd = NoCwd

\* C9, as stated: when the test-source root cannot be resolved to an
\* absolute path the script fails with a ConfigurationError, no token is
\* registered and no test executes.
C9_RaisesConfigurationError ==
    (kernel = "harness" /\ pc # "start" /\ Unresolvable) =>
        /\ err = "ConfigurationError"
        /\ config.substitutions = <<>>
        /\ executed = 0

\* C9, amended: the script fails exactly when the test-source root is
\* relative and the working directory cannot be read, with the
\* FileNotFoundError of os.getcwd(); no token is registered then and no
\* test executes.
C9_FailsUnresolved ==
    (kernel = "harness" /\ pc # "start") =>
        /\ (err # "none") <=> Unresolvable
        /\ err \in {"none", "FileNotFoundError"}
        /\ err # "none" =>
              /\ pc = "aborted"
              /\ config.substitutions = <<>>
              /\ executed = 0

\* Loaded as test/lit.cfg.py with the working directory gone, the script has
\* failed at line 11, after setting the roots.
C9_Witness ==
    /\ kernel = "harness" /\ pc = "aborted"
    /\ cfile = <<"test", Sep, "lit.cfg.py">>
    /\ cwd = NoCwd
    /\ err = "FileNotFoundError"
    /\ config.test_source_root = <<"test">>
    /\ config.substitutions = <<>>

(***************************************************************************)
(* All programs.                                                           *)
(***************************************************************************)
Init ==
    \/ InitLoopsum \/ InitFib \/ InitPrimecount \/ InitLcg \/ InitParticles
    \/ InitHarness

NextKernels ==
    \/ NextLoopsum \/ NextFib \/ NextPrimecount \/ NextLcg \/ NextParticles

Next == NextKernels \/ NextHarness

Spec == Init /\ [][Next]_vars

(***************************************************************************)
(* The kernels on inputs whose runs are explored to their end.  A program  *)
(* is run by an interpreter that takes the next step whenever there is     *)
(* one: weak fairness of the step.                                         *)
(***************************************************************************)
InitKernels ==
    \/ InitLoopsumOn(LoopSmallInputs)
    \/ InitFib \/ InitPrimecount \/ InitLcg
    \/ InitParticlesOn(PartSmallInputs)

FairSpec == InitKernels /\ [][NextKernels]_vars /\ WF_vars(NextKernels)

\* C6: every kernel terminates: fib's recursion and the recursions under
\* count_primes reach their base cases and every loop reaches its bound, so
\* each main reaches its print.
C6_Terminates == <>(pc = "done" /\ out # "")

\* main has printed after fib(12), whose recursion made 287 calls.
C6_Witness ==
    /\ kernel = "fib" /\ pc = "done"
    /\ stack[1].n = 12 /\ out = "144.000000"

====
